---- MODULE Spec2Model ----
(***************************************************************************)
(* A model of ChebySpec.py: GLpoints (the Gauss-Lobatto-Chebyshev grid)    *)
(* and findCoeffs (the discrete Chebyshev transform).                      *)
(*                                                                         *)
(* Numbers.  A float64 is modelled by a pair <<n, d>>:                     *)
(*   d > 0          the exact rational n/d, in lowest terms;               *)
(*   <<1,0>>, <<-1,0>>   +inf and -inf;   <<0,0>>   nan.                   *)
(* Arithmetic is exact: rounding error (the spec's tolerance of 1e-9) and  *)
(* the sign of zero are not modelled.  cos(pi*j/N) is rational only for    *)
(* N <= 3 (Niven), which is why GLpoints is run for N <= 3.                *)
(*                                                                         *)
(* Arrays.  A numpy array is an object of the heap, named by its index     *)
(* (a reference); Python's index i is the sequence index i+1.              *)
(***************************************************************************)
EXTENDS Integers, Sequences, FiniteSets

VARIABLES
  heap,     \* the arrays allocated so far: heap[r] is the array of reference r
  fn,       \* the function being run: "none", "GLpoints", "findCoeffs"
  pc,       \* the line the call is at, or "idle", "done", "raised"
  N,        \* GLpoints' argument N / findCoeffs' local N
  Uref,     \* findCoeffs' argument U (0: none)
  Xref,     \* findCoeffs' argument X, GLpoints' local X (0: none)
  cref,     \* findCoeffs' local c
  uhatref,  \* findCoeffs' local uhat
  dref,     \* findCoeffs' local d
  k,        \* the outer loop's index
  j,        \* the inner loop's index
  m,        \* findCoeffs' local m
  ret,      \* the reference delivered to the caller (0: nothing delivered)
  err,      \* the exception that left the call ("": none)
  warn,     \* numpy's RuntimeWarning "divide by zero" was emitted
  grid,     \* the caller's grid from an earlier GLpoints call (0: none)
  lin,      \* the linearity experiment's record (SpecLin)
  par       \* the reordered outer loop's record (SpecPar)

vars == <<heap, fn, pc, N, Uref, Xref, cref, uhatref, dref, k, j, m, ret,
          err, warn, grid, lin, par>>

\* ------------------------------------------------------------- bounds

\* GLpoints is called with N in MinN..MaxN.
MaxN == 2
\* The caller's vectors have 0..MaxLen entries.
MaxLen == 3
\* The reordered loop is run on vectors of 2..MaxParLen entries.
MaxParLen == 3
\* The linearity experiment is run on vectors of 1..MaxLinLen entries.
MaxLinLen == 3

MinN == 0 - 2

\* ------------------------------------------------------------- float64

Abs(a) == IF a < 0 THEN 0 - a ELSE a

Sign(a) == IF a < 0 THEN 0 - 1 ELSE IF a > 0 THEN 1 ELSE 0

RECURSIVE GCD(_, _)
GCD(a, b) == IF b = 0 THEN a ELSE GCD(b, a % b)

\* n/d in lowest terms with a positive denominator; d = 0 gives inf or nan.
Norm(n, d) ==
  IF d = 0 THEN <<Sign(n), 0>>
  ELSE LET g == GCD(Abs(n), Abs(d))
       IN  <<Sign(d) * Sign(n) * (Abs(n) \div g), Abs(d) \div g>>

F(i) == <<i, 1>>

NaN == <<0, 0>>

IsFinite(x) == x[2] > 0

Mul(x, y) == Norm(x[1] * y[1], x[2] * y[2])

Recip(y) == IF y[1] < 0 THEN <<0 - y[2], 0 - y[1]>> ELSE <<y[2], y[1]>>

\* numpy's float division: x/0 is +-inf or nan (with a warning), no exception.
Div(x, y) == Mul(x, Norm(Recip(y)[1], Recip(y)[2]))

Add(x, y) ==
  IF IsFinite(x) /\ IsFinite(y) THEN Norm(x[1] * y[2] + y[1] * x[2], x[2] * y[2])
  ELSE IF x = NaN \/ y = NaN THEN NaN
  ELSE IF ~IsFinite(x) /\ ~IsFinite(y) THEN (IF x = y THEN x ELSE NaN)
  ELSE IF IsFinite(x) THEN y ELSE x

Neg(x) == <<0 - x[1], x[2]>>

Sub(x, y) == Add(x, Neg(y))

Less(x, y) == IsFinite(x) /\ IsFinite(y) /\ x[1] * y[2] < y[1] * x[2]

\* IEEE equality: nan equals nothing.
FloatEq(x, y) == x # NaN /\ y # NaN /\ x = y

\* ------------------------------------------------------------- numpy

\* np.zeros(n), np.ones(n)
Zeros(n) == [i \in 1..n |-> F(0)]

Ones(n) == [i \in 1..n |-> F(1)]

\* np.cos(np.pi*j/N) for the N whose cosines are rational.
CosPi(jj, n) ==
  CASE n = 1 -> <<F(1), F(0 - 1)>>[jj + 1]
    [] n = 2 -> <<F(1), F(0), F(0 - 1)>>[jj + 1]
    [] n = 3 -> <<F(1), <<1, 2>>, <<0 - 1, 2>>, F(0 - 1)>>[jj + 1]

\* chebval's Clenshaw loop: for i in range(3, len(c)+1)
RECURSIVE ClenshawLoop(_, _, _, _, _)
ClenshawLoop(cs, x2, i, c0, c1) ==
  IF i > Len(cs) THEN <<c0, c1>>
  ELSE ClenshawLoop(cs, x2, i + 1,
                    Sub(cs[Len(cs) + 1 - i], c1), Add(c0, Mul(c1, x2)))

\* numpy.polynomial.chebyshev.chebval(x, c) for a scalar x and a 1-d c
Chebval(x, cs) ==
  LET p == IF Len(cs) = 1 THEN <<cs[1], F(0)>>
           ELSE IF Len(cs) = 2 THEN <<cs[1], cs[2]>>
           ELSE ClenshawLoop(cs, Mul(F(2), x), 3, cs[Len(cs) - 1], cs[Len(cs)])
  IN  Add(p[1], Mul(p[2], x))

\* ------------------------------------------------------------- the code's expressions

\* GLValue with the sign dropped: np.cos(np.pi*j/N)
GLValueUnnegated(jj, n) == CosPi(jj, n)

\* GLpoints line 13: -np.cos(np.pi*j/N)
GLValue(jj, n) == Neg(CosPi(jj, n))

\* findCoeffs line 29: N=len(X)-1
NOf(Xv) == Len(Xv) - 1

\* CInit with the weights started from zero: c=np.zeros(N+1)
CInitZeros(n) == Zeros(n + 1)

\* findCoeffs line 31: c=np.ones(N+1)
CInit(n) == Ones(n + 1)

\* findCoeffs lines 32, 33: c[0]=2, c[-1]=2 (on a non-empty c)
SetFirst(cv) == [cv EXCEPT ![1] = F(2)]

\* SetLast with the write of line 33 left out
SetLastOmitted(cv) == cv

SetLast(cv) == [cv EXCEPT ![Len(cv)] = F(2)]

\* UhatInit started from one: uhat=np.ones(N+1)
UhatInitOnes(n) == Ones(n + 1)

\* findCoeffs line 35: uhat=np.zeros(N+1)
UhatInit(n) == Zeros(n + 1)

\* findCoeffs line 38: m=2./(N*c[k])
Divisor(n, ck) == Mul(F(n), ck)

\* NormFactor without the weight c[k]: m=2./N
NormFactorUnweighted(n, ck) == Div(F(2), F(n))

NormFactor(n, ck) == Div(F(2), Divisor(n, ck))

\* findCoeffs lines 39, 40: d=np.zeros(k+1); d[-1]=1
OneHot(kk) == [i \in 1..(kk + 1) |-> IF i = kk + 1 THEN F(1) ELSE F(0)]

\* findCoeffs line 42, the term added: U[j]*cheb.chebval(X[j],d)/c[j]
AccTerm(u, x, dd, cj) == Div(Mul(u, Chebval(x, dd)), cj)

\* findCoeffs line 42: uhat[k]=uhat[k]+U[j]*cheb.chebval(X[j],d)/c[j]
AccStep(uh, Uv, Xv, cv, dd, kk, jj) ==
  [uh EXCEPT ![kk + 1] =
     Add(uh[kk + 1], AccTerm(Uv[jj + 1], Xv[jj + 1], dd, cv[jj + 1]))]

\* NormStep scaling the whole vector: uhat=m*uhat
NormStepWhole(uh, kk, mm) == [i \in 1..Len(uh) |-> Mul(mm, uh[i])]

\* findCoeffs line 43: uhat[k]=m*uhat[k]
NormStep(uh, kk, mm) == [uh EXCEPT ![kk + 1] = Mul(mm, uh[kk + 1])]

\* findCoeffs as a function of its arguments' values, for len(U) >= len(X) >= 1:
\* the loops of lines 37-43 run in the code's order.
RECURSIVE InnerLoop(_, _, _, _, _, _, _)
InnerLoop(uh, Uv, Xv, cv, dd, kk, jj) ==
  IF jj < NOf(Xv) + 1
  THEN InnerLoop(AccStep(uh, Uv, Xv, cv, dd, kk, jj), Uv, Xv, cv, dd, kk, jj + 1)
  ELSE uh

RECURSIVE OuterLoop(_, _, _, _, _)
OuterLoop(uh, Uv, Xv, cv, kk) ==
  IF kk < NOf(Xv) + 1
  THEN OuterLoop(NormStep(InnerLoop(uh, Uv, Xv, cv, OneHot(kk), kk, 0), kk,
                          NormFactor(NOf(Xv), cv[kk + 1])),
                 Uv, Xv, cv, kk + 1)
  ELSE uh

FindCoeffs(Uv, Xv) ==
  OuterLoop(UhatInit(NOf(Xv)), Uv, Xv, SetLast(SetFirst(CInit(NOf(Xv)))), 0)

\* ------------------------------------------------------------- the heap

\* The reference a new array gets, and the heap holding it.
NewRef(h) == Len(h) + 1

Alloc(h, arr) == Append(h, arr)

Store(h, r, arr) == [h EXCEPT ![r] = arr]

\* Raise with the exception swallowed and the partly filled uhat handed back
RaiseDelivering(e) ==
  /\ pc' = "raised"
  /\ err' = e
  /\ ret' = uhatref

\* An exception leaves the call: the caller is delivered nothing.
Raise(e) ==
  /\ pc' = "raised"
  /\ err' = e
  /\ ret' = 0

\* ------------------------------------------------------------- the caller's inputs

XVals == {F(0 - 1), F(0), F(1)}

UVals == {F(0), F(1)}

Vecs(S, lo, hi) == UNION {[1..n -> S] : n \in lo..hi}

\* The vectors over XVals that are in order, as a grid is (entries may repeat).
Grids(lo, hi) ==
  {v \in Vecs(XVals, lo, hi) : \A i \in 1..(Len(v) - 1) : ~Less(v[i + 1], v[i])}

\* T_m(x) by the three-term recurrence T_0 = 1, T_1 = x, T_{k+1} = 2x T_k - T_{k-1}
RECURSIVE Tcheb(_, _)
Tcheb(mm, x) ==
  IF mm = 0 THEN F(1)
  ELSE IF mm = 1 THEN x
  ELSE Sub(Mul(Mul(F(2), x), Tcheb(mm - 1, x)), Tcheb(mm - 2, x))

\* The samples U_j = T_m(X_j)
ChebSamples(mm, Xv) == [i \in 1..Len(Xv) |-> Tcheb(mm, Xv[i])]

\* The samples of T_0..T_N on the grid GLpoints has just returned.
GridSamples ==
  IF fn = "GLpoints" /\ pc = "done"
  THEN {ChebSamples(mm, heap[ret]) : mm \in 0..(Len(heap[ret]) - 1)}
  ELSE {}

\* ------------------------------------------------------------- Init

\* No call is running and no array exists.
Idle ==
  /\ heap = <<>>
  /\ fn = "none"
  /\ pc = "idle"
  /\ N = 0
  /\ Uref = 0
  /\ Xref = 0
  /\ cref = 0
  /\ uhatref = 0
  /\ dref = 0
  /\ k = 0
  /\ j = 0
  /\ m = F(0)
  /\ ret = 0
  /\ err = ""
  /\ warn = FALSE
  /\ grid = 0

Init ==
  /\ Idle
  /\ lin = <<>>
  /\ par = <<>>

\* ------------------------------------------------------------- GLpoints

\* The caller calls GLpoints(n).
CallGLpoints(n) ==
  /\ pc = "idle"
  /\ fn = "none"
  /\ fn' = "GLpoints"
  /\ N' = n
  /\ pc' = "L11"
  /\ UNCHANGED <<heap, Uref, Xref, cref, uhatref, dref, k, j, m, ret, err,
                 warn, grid, lin, par>>

\* line 11: X=np.zeros(N+1); a negative size raises ValueError
GL_L11 ==
  /\ fn = "GLpoints"
  /\ pc = "L11"
  /\ IF N + 1 < 0
     THEN /\ Raise("ValueError")
          /\ UNCHANGED <<heap, Xref, j>>
     ELSE /\ heap' = Alloc(heap, Zeros(N + 1))
          /\ Xref' = NewRef(heap)
          /\ j' = 0
          /\ pc' = "L12"
          /\ UNCHANGED <<ret, err>>
  /\ UNCHANGED <<fn, N, Uref, cref, uhatref, dref, k, m, warn, grid, lin, par>>

\* lines 12, 13: for j in range(N+1): X[j]=-np.cos(np.pi*j/N);
\* np.pi*j/N divides a Python float by the int N and raises at N = 0
GL_L12 ==
  /\ fn = "GLpoints"
  /\ pc = "L12"
  /\ IF j < N + 1
     THEN IF N = 0
          THEN /\ Raise("ZeroDivisionError")
               /\ UNCHANGED <<heap, j>>
          ELSE /\ heap' = Store(heap, Xref,
                                [heap[Xref] EXCEPT ![j + 1] = GLValue(j, N)])
               /\ j' = j + 1
               /\ UNCHANGED <<pc, ret, err>>
     ELSE /\ pc' = "L15"
          /\ UNCHANGED <<heap, j, ret, err>>
  /\ UNCHANGED <<fn, N, Uref, Xref, cref, uhatref, dref, k, m, warn, grid,
                 lin, par>>

\* line 15: return X
GL_L15 ==
  /\ fn = "GLpoints"
  /\ pc = "L15"
  /\ ret' = Xref
  /\ pc' = "done"
  /\ UNCHANGED <<heap, fn, N, Uref, Xref, cref, uhatref, dref, k, j, m, err,
                 warn, grid, lin, par>>

\* ------------------------------------------------------------- findCoeffs

\* What a call of findCoeffs starts from: its arguments bound, nothing else.
Enter(u, x, g) ==
  /\ fn' = "findCoeffs"
  /\ pc' = "L29"
  /\ Uref' = u
  /\ Xref' = x
  /\ grid' = g
  /\ ret' = 0
  /\ UNCHANGED <<N, cref, uhatref, dref, k, j, m, err, warn, lin, par>>

\* The caller calls findCoeffs(U, X) on two arrays of its own.
CallFindCoeffs(Uv, Xv) ==
  /\ pc = "idle"
  /\ fn = "none"
  /\ heap' = <<Xv, Uv>>
  /\ Enter(2, 1, 0)

\* The caller calls findCoeffs(X, X): both arguments are one array.
CallFindCoeffsAliased(Xv) ==
  /\ pc = "idle"
  /\ fn = "none"
  /\ heap' = <<Xv>>
  /\ Enter(1, 1, 0)

\* The caller calls findCoeffs(U, X) with X the grid GLpoints returned.
CallFindCoeffsOnGrid(Uv) ==
  /\ fn = "GLpoints"
  /\ pc = "done"
  /\ heap' = Alloc(heap, Uv)
  /\ Enter(NewRef(heap), ret, ret)

\* line 29: N=len(X)-1
FC_L29 ==
  /\ fn = "findCoeffs"
  /\ pc = "L29"
  /\ N' = NOf(heap[Xref])
  /\ pc' = "L31"
  /\ UNCHANGED <<heap, fn, Uref, Xref, cref, uhatref, dref, k, j, m, ret, err,
                 warn, grid, lin, par>>

\* line 31: c=np.ones(N+1)
FC_L31 ==
  /\ fn = "findCoeffs"
  /\ pc = "L31"
  /\ heap' = Alloc(heap, CInit(N))
  /\ cref' = NewRef(heap)
  /\ pc' = "L32"
  /\ UNCHANGED <<fn, N, Uref, Xref, uhatref, dref, k, j, m, ret, err, warn,
                 grid, lin, par>>

\* line 32: c[0]=2; on an empty c, IndexError
FC_L32 ==
  /\ fn = "findCoeffs"
  /\ pc = "L32"
  /\ IF Len(heap[cref]) = 0
     THEN /\ Raise("IndexError")
          /\ UNCHANGED heap
     ELSE /\ heap' = Store(heap, cref, SetFirst(heap[cref]))
          /\ pc' = "L33"
          /\ UNCHANGED <<ret, err>>
  /\ UNCHANGED <<fn, N, Uref, Xref, cref, uhatref, dref, k, j, m, warn, grid,
                 lin, par>>

\* line 33: c[-1]=2
FC_L33 ==
  /\ fn = "findCoeffs"
  /\ pc = "L33"
  /\ heap' = Store(heap, cref, SetLast(heap[cref]))
  /\ pc' = "L35"
  /\ UNCHANGED <<fn, N, Uref, Xref, cref, uhatref, dref, k, j, m, ret, err,
                 warn, grid, lin, par>>

\* FC_L35 computing in place: uhat=U
FC_L35_InPlace ==
  /\ fn = "findCoeffs"
  /\ pc = "L35"
  /\ uhatref' = Uref
  /\ k' = 0
  /\ pc' = "L37"
  /\ UNCHANGED <<heap, fn, N, Uref, Xref, cref, dref, j, m, ret, err, warn,
                 grid, lin, par>>

\* line 35: uhat=np.zeros(N+1); the outer loop starts at k = 0
FC_L35 ==
  /\ fn = "findCoeffs"
  /\ pc = "L35"
  /\ heap' = Alloc(heap, UhatInit(N))
  /\ uhatref' = NewRef(heap)
  /\ k' = 0
  /\ pc' = "L37"
  /\ UNCHANGED <<fn, N, Uref, Xref, cref, dref, j, m, ret, err, warn, grid,
                 lin, par>>

\* lines 37, 38: for k in range(N+1): m=2./(N*c[k]); a zero divisor gives
\* inf and numpy's warning, no exception
FC_L37 ==
  /\ fn = "findCoeffs"
  /\ pc = "L37"
  /\ IF k < N + 1
     THEN /\ m' = NormFactor(N, heap[cref][k + 1])
          /\ warn' = (warn \/ Divisor(N, heap[cref][k + 1]) = F(0))
          /\ pc' = "L39"
     ELSE /\ pc' = "L45"
          /\ UNCHANGED <<m, warn>>
  /\ UNCHANGED <<heap, fn, N, Uref, Xref, cref, uhatref, dref, k, j, ret, err,
                 grid, lin, par>>

\* lines 39, 40: d=np.zeros(k+1); d[-1]=1; the inner loop starts at j = 0
FC_L39 ==
  /\ fn = "findCoeffs"
  /\ pc = "L39"
  /\ heap' = Alloc(heap, OneHot(k))
  /\ dref' = NewRef(heap)
  /\ j' = 0
  /\ pc' = "L41"
  /\ UNCHANGED <<fn, N, Uref, Xref, cref, uhatref, k, m, ret, err, warn, grid,
                 lin, par>>

\* lines 41, 42: for j in range(N+1): uhat[k]=uhat[k]+U[j]*chebval(X[j],d)/c[j];
\* U[j] past the end of U raises IndexError
FC_L41 ==
  /\ fn = "findCoeffs"
  /\ pc = "L41"
  /\ IF j < N + 1
     THEN IF j >= Len(heap[Uref])
          THEN /\ Raise("IndexError")
               /\ UNCHANGED <<heap, j>>
          ELSE /\ heap' = Store(heap, uhatref,
                                AccStep(heap[uhatref], heap[Uref], heap[Xref],
                                        heap[cref], heap[dref], k, j))
               /\ j' = j + 1
               /\ UNCHANGED <<pc, ret, err>>
     ELSE /\ pc' = "L43"
          /\ UNCHANGED <<heap, j, ret, err>>
  /\ UNCHANGED <<fn, N, Uref, Xref, cref, uhatref, dref, k, m, warn, grid,
                 lin, par>>

\* line 43: uhat[k]=m*uhat[k]; then the next k
FC_L43 ==
  /\ fn = "findCoeffs"
  /\ pc = "L43"
  /\ heap' = Store(heap, uhatref, NormStep(heap[uhatref], k, m))
  /\ k' = k + 1
  /\ pc' = "L37"
  /\ UNCHANGED <<fn, N, Uref, Xref, cref, uhatref, dref, j, m, ret, err, warn,
                 grid, lin, par>>

\* line 45: return uhat
FC_L45 ==
  /\ fn = "findCoeffs"
  /\ pc = "L45"
  /\ ret' = uhatref
  /\ pc' = "done"
  /\ UNCHANGED <<heap, fn, N, Uref, Xref, cref, uhatref, dref, k, j, m, err,
                 warn, grid, lin, par>>

\* ------------------------------------------------------------- the program

Next ==
  \/ \E n \in MinN..MaxN : CallGLpoints(n)
  \/ GL_L11
  \/ GL_L12
  \/ GL_L15
  \/ \E Xv \in Vecs(XVals, 0, MaxLen) : \E Uv \in Vecs(UVals, 0, MaxLen) :
       CallFindCoeffs(Uv, Xv)
  \/ \E Xv \in Vecs(XVals, 0, MaxLen) : CallFindCoeffsAliased(Xv)
  \/ \E Uv \in Vecs(UVals, 0, MaxLen) \cup GridSamples : CallFindCoeffsOnGrid(Uv)
  \/ FC_L29
  \/ FC_L31
  \/ FC_L32
  \/ FC_L33
  \/ FC_L35
  \/ FC_L37
  \/ FC_L39
  \/ FC_L41
  \/ FC_L43
  \/ FC_L45

Spec == Init /\ [][Next]_vars

\* ------------------------------------------------------------- linearity

Scalars == {F(0 - 1), F(2)}

\* a*U1 + b*U2, entry by entry
Combine(a, U1, b, U2) == [i \in 1..Len(U1) |-> Add(Mul(a, U1[i]), Mul(b, U2[i]))]

\* The caller has chosen X, the samples U1, U2 of X's length, and a, b.
InitLin ==
  /\ Idle
  /\ par = <<>>
  /\ \E Xv \in Grids(1, MaxLinLen) :
       \E U1 \in [1..Len(Xv) -> UVals], U2 \in [1..Len(Xv) -> UVals] :
         \E a \in Scalars, b \in Scalars :
           lin = [X |-> Xv, U1 |-> U1, U2 |-> U2, a |-> a, b |-> b, r |-> <<>>]

\* findCoeffs(U1, X)
LinFirst ==
  /\ Len(lin.r) = 0
  /\ lin' = [lin EXCEPT !.r = <<FindCoeffs(lin.U1, lin.X)>>]
  /\ UNCHANGED <<heap, fn, pc, N, Uref, Xref, cref, uhatref, dref, k, j, m,
                 ret, err, warn, grid, par>>

\* findCoeffs(U2, X)
LinSecond ==
  /\ Len(lin.r) = 1
  /\ lin' = [lin EXCEPT !.r = Append(lin.r, FindCoeffs(lin.U2, lin.X))]
  /\ UNCHANGED <<heap, fn, pc, N, Uref, Xref, cref, uhatref, dref, k, j, m,
                 ret, err, warn, grid, par>>

\* findCoeffs(a*U1 + b*U2, X)
LinCombined ==
  /\ Len(lin.r) = 2
  /\ lin' = [lin EXCEPT !.r =
               Append(lin.r, FindCoeffs(Combine(lin.a, lin.U1, lin.b, lin.U2), lin.X))]
  /\ UNCHANGED <<heap, fn, pc, N, Uref, Xref, cref, uhatref, dref, k, j, m,
                 ret, err, warn, grid, par>>

NextLin ==
  \/ LinFirst
  \/ LinSecond
  \/ LinCombined

SpecLin == InitLin /\ [][NextLin]_vars

\* ------------------------------------------------------------- the outer loop, reordered

\* findCoeffs has run lines 29-35 on U and X of one length; each iteration k
\* of the outer loop has its own position ipc[k] and its own j, m and d.
InitPar ==
  /\ Idle
  /\ lin = <<>>
  /\ \E Xv \in Grids(2, MaxParLen) : \E Uv \in [1..Len(Xv) -> UVals] :
       par = [U |-> Uv, X |-> Xv,
              c |-> SetLast(SetFirst(CInit(NOf(Xv)))),
              uhat |-> UhatInit(NOf(Xv)),
              ipc |-> [i \in 1..Len(Xv) |-> "L38"],
              ij |-> [i \in 1..Len(Xv) |-> 0],
              im |-> [i \in 1..Len(Xv) |-> F(0)],
              id |-> [i \in 1..Len(Xv) |-> <<>>]]

\* iteration kk, lines 38-40: m, d, and the inner loop starts
ParL38(kk) ==
  /\ par.ipc[kk + 1] = "L38"
  /\ par' = [par EXCEPT !.im[kk + 1] = NormFactor(NOf(par.X), par.c[kk + 1]),
                        !.id[kk + 1] = OneHot(kk),
                        !.ij[kk + 1] = 0,
                        !.ipc[kk + 1] = "L41"]
  /\ UNCHANGED <<heap, fn, pc, N, Uref, Xref, cref, uhatref, dref, k, j, m,
                 ret, err, warn, grid, lin>>

\* iteration kk, lines 41-42: one step of the inner loop
ParL42(kk) ==
  /\ par.ipc[kk + 1] = "L41"
  /\ par.ij[kk + 1] < NOf(par.X) + 1
  /\ par' = [par EXCEPT !.uhat = AccStep(par.uhat, par.U, par.X, par.c,
                                         par.id[kk + 1], kk, par.ij[kk + 1]),
                        !.ij[kk + 1] = par.ij[kk + 1] + 1]
  /\ UNCHANGED <<heap, fn, pc, N, Uref, Xref, cref, uhatref, dref, k, j, m,
                 ret, err, warn, grid, lin>>

\* iteration kk, line 43, once the inner loop has ended
ParL43(kk) ==
  /\ par.ipc[kk + 1] = "L41"
  /\ par.ij[kk + 1] = NOf(par.X) + 1
  /\ par' = [par EXCEPT !.uhat = NormStep(par.uhat, kk, par.im[kk + 1]),
                        !.ipc[kk + 1] = "end"]
  /\ UNCHANGED <<heap, fn, pc, N, Uref, Xref, cref, uhatref, dref, k, j, m,
                 ret, err, warn, grid, lin>>

NextPar ==
  \/ \E kk \in 0..NOf(par.X) : ParL38(kk)
  \/ \E kk \in 0..NOf(par.X) : ParL42(kk)
  \/ \E kk \in 0..NOf(par.X) : ParL43(kk)

SpecPar == InitPar /\ [][NextPar]_vars

\* ------------------------------------------------------------- checks of the model

\* The arrays the caller held when the running call started.
CallerArrays ==
  IF fn = "findCoeffs" THEN (IF Uref > Xref THEN Uref ELSE Xref) ELSE 0

U == heap[Uref]

X == heap[Xref]

TypeOK ==
  /\ fn \in {"none", "GLpoints", "findCoeffs"}
  /\ ret \in 0..Len(heap)
  /\ err \in {"", "ValueError", "ZeroDivisionError", "IndexError"}
  /\ (pc = "raised") = (err # "")
  /\ \A r \in 1..Len(heap) : \A i \in 1..Len(heap[r]) :
       heap[r][i] = Norm(heap[r][i][1], heap[r][i][2])

\* The line-by-line run and the function of the arguments' values agree.
StepwiseAgrees ==
  fn = "findCoeffs" =>
    /\ pc = "done" => Len(U) >= Len(X) /\ Len(X) >= 1 /\ heap[ret] = FindCoeffs(U, X)
    /\ pc = "raised" => Len(X) = 0 \/ Len(U) < Len(X)

\* ------------------------------------------------------------- the claims

Unit(n, mm) == [i \in 1..n |-> IF i = mm + 1 THEN F(1) ELSE F(0)]

VecEq(a, b) == Len(a) = Len(b) /\ \A i \in 1..Len(a) : FloatEq(a[i], b[i])

\* C1: for N >= 1 and 0 <= m <= N, with X = GLpoints(N) and U_j = T_m(X_j),
\* findCoeffs(U, X) is the unit vector of length N+1 with 1 at index m.
C1_RoundTrip ==
  (fn = "findCoeffs" /\ pc = "done" /\ grid # 0 /\ Len(heap[grid]) >= 2) =>
    \A mm \in 0..(Len(heap[grid]) - 1) :
      U = ChebSamples(mm, heap[grid]) => VecEq(heap[ret], Unit(Len(heap[grid]), mm))

\* T_N sampled on GLpoints(2) has been transformed to [0, 0, 1].
C1_Witness ==
  /\ fn = "findCoeffs"
  /\ pc = "done"
  /\ grid # 0
  /\ X = <<F(0 - 1), F(0), F(1)>>
  /\ U = ChebSamples(2, X)
  /\ heap[ret] = <<F(0), F(0), F(1)>>

\* C3: whenever len(U) # len(X), findCoeffs fails instead of returning a
\* coefficient vector.
C3_MismatchRejected ==
  (fn = "findCoeffs" /\ Len(U) # Len(X)) => pc # "done"

\* C4: for N <= 0 GLpoints fails; it never returns a grid, empty or otherwise.
C4_NonPositiveRejected ==
  (fn = "GLpoints" /\ N <= 0) => (pc # "done" /\ ret = 0)

\* C5: for N >= 1 GLpoints(N) returns N+1 values, element j being
\* -cos(pi*j/N), the first -1, the last +1, each greater than its predecessor.
C5_Grid ==
  (fn = "GLpoints" /\ pc = "done" /\ N >= 1) =>
    /\ Len(heap[ret]) = N + 1
    /\ \A jj \in 0..N : heap[ret][jj + 1] = Neg(CosPi(jj, N))
    /\ heap[ret][1] = F(0 - 1)
    /\ heap[ret][N + 1] = F(1)
    /\ \A i \in 1..N : Less(heap[ret][i], heap[ret][i + 1])

\* GLpoints(2) has returned [-1, 0, 1].
C5_Witness ==
  /\ fn = "GLpoints"
  /\ pc = "done"
  /\ N = 2
  /\ heap[ret] = <<F(0 - 1), F(0), F(1)>>

\* C6: at every step of a call, on success and on failure, the arrays the
\* caller held when the call started stay as they were, and the array
\* returned is none of them: it was allocated by the call.
C6_Frame ==
  /\ [][(fn # "none" /\ fn' = fn) =>
          /\ Uref' = Uref
          /\ (fn = "findCoeffs" => Xref' = Xref)
          /\ \A r \in 1..CallerArrays : heap'[r] = heap[r]]_vars
  /\ [](ret # 0 => ret > CallerArrays /\ ret \notin {Uref, IF fn = "findCoeffs" THEN Xref ELSE 0})

\* findCoeffs(X, X) has returned a third array, X being as it was passed.
C6_Witness ==
  /\ fn = "findCoeffs"
  /\ pc = "done"
  /\ Uref = Xref
  /\ X = <<F(0 - 1), F(0), F(1)>>
  /\ ret = 3
  /\ heap[ret] # X

\* C7: a call either completes and delivers all N+1 entries, or fails and
\* delivers nothing; the caller never holds a partly filled result.
C7_Atomic ==
  /\ pc = "raised" => ret = 0
  /\ ret # 0 =>
       /\ pc = "done"
       /\ Len(heap[ret]) = N + 1
       /\ fn = "GLpoints" => j = N + 1
       /\ fn = "findCoeffs" => k = N + 1 /\ j = N + 1

\* findCoeffs has failed part-way through its accumulation, U being shorter
\* than X, with uhat partly filled and nothing delivered.
C7_Witness ==
  /\ fn = "findCoeffs"
  /\ pc = "raised"
  /\ err = "IndexError"
  /\ Len(U) < Len(X)
  /\ j > 0
  /\ heap[uhatref] # Zeros(N + 1)
  /\ ret = 0

\* The claim's weights: c_0 = c_N = 2, c_j = 1 otherwise.
Weight(i, n) == IF i = 0 \/ i = n THEN F(2) ELSE F(1)

\* sum over j = 0..jj of U_j * T_k(X_j) / c_j
RECURSIVE WeightedSum(_, _, _, _)
WeightedSum(Uv, Xv, kk, jj) ==
  IF jj < 0 THEN F(0)
  ELSE Add(WeightedSum(Uv, Xv, kk, jj - 1),
           Div(Mul(Uv[jj + 1], Tcheb(kk, Xv[jj + 1])), Weight(jj, Len(Xv) - 1)))

Coefficient(Uv, Xv, kk) ==
  Mul(Div(F(2), Mul(F(Len(Xv) - 1), Weight(kk, Len(Xv) - 1))),
      WeightedSum(Uv, Xv, kk, Len(Xv) - 1))

\* C8: for len(U) = len(X) = N+1 with N >= 1, findCoeffs(U, X)[k] is
\* (2/(N c_k)) * sum_j U_j T_k(X_j) / c_j, T_k by the three-term recurrence.
C8_Formula ==
  (fn = "findCoeffs" /\ pc = "done" /\ Len(X) >= 2 /\ Len(U) = Len(X)) =>
    /\ Len(heap[ret]) = Len(X)
    /\ \A kk \in 0..(Len(X) - 1) : FloatEq(heap[ret][kk + 1], Coefficient(U, X, kk))

\* The spec's example: X = [-1, 0, 1], U = [1, 0, 1] has given [1/2, 0, 1/2].
C8_Witness ==
  /\ fn = "findCoeffs"
  /\ pc = "done"
  /\ X = <<F(0 - 1), F(0), F(1)>>
  /\ U = <<F(1), F(0), F(1)>>
  /\ heap[ret] = <<<<1, 2>>, F(0), <<1, 2>>>>

\* C10: the divisor N*c[k] is non-zero whenever len(X) >= 2; a division by
\* zero happens only for len(X) = 1, and then it is performed (with numpy's
\* warning), the input not being rejected before it.
C10_Divisor ==
  fn = "findCoeffs" =>
    /\ (pc = "L37" /\ k < N + 1 /\ Len(X) >= 2) => Divisor(N, heap[cref][k + 1]) # F(0)
    /\ warn => Len(X) = 1
    /\ (Len(X) = 1 /\ pc \in {"L39", "L41", "L43", "L45", "done", "raised"}) => warn

\* findCoeffs([1], [x]) has divided by zero and returned [inf].
C10_Witness ==
  /\ fn = "findCoeffs"
  /\ pc = "done"
  /\ Len(X) = 1
  /\ warn
  /\ heap[ret] = <<<<1, 0>>>>

\* C2 as stated: for every X and all U1, U2 of X's length and scalars a, b,
\* findCoeffs(a*U1 + b*U2, X) = a*findCoeffs(U1, X) + b*findCoeffs(U2, X)
\* at every index (two nan entries are counted as equal here).
C2_LinearAnyLength ==
  Len(lin.r) = 3 =>
    lin.r[3] = Combine(lin.a, lin.r[1], lin.b, lin.r[2])

\* C2, amended: the same for X of at least two entries (N >= 1), where every
\* entry is finite.
C2_Linear ==
  (Len(lin.r) = 3 /\ Len(lin.X) >= 2) =>
    VecEq(lin.r[3], Combine(lin.a, lin.r[1], lin.b, lin.r[2]))

\* The three transforms are done for a three-point X, U1 # U2, and the
\* combination is not the zero vector.
C2_Witness ==
  /\ Len(lin.r) = 3
  /\ Len(lin.X) = 3
  /\ lin.U1 # lin.U2
  /\ lin.r[3] # Zeros(3)
  /\ lin.r[3] = Combine(lin.a, lin.r[1], lin.b, lin.r[2])

\* C9: run in any order, their inner steps interleaved in any way, the
\* iterations of the outer loop leave the coefficient vector the run in the
\* order k = 0..N leaves; a step of iteration k writes uhat[k] alone.
C9_OrderIndependent ==
  /\ [](par # <<>> /\ (\A i \in 1..Len(par.X) : par.ipc[i] = "end")
          => par.uhat = FindCoeffs(par.U, par.X))
  /\ [][\A i \in 1..Len(par.X) :
          (par'.ipc[i] = par.ipc[i] /\ par'.ij[i] = par.ij[i])
            => par'.uhat[i] = par.uhat[i]]_vars

\* Out of the code's order: iteration 2 has ended with uhat[2] = 1/2 while
\* iteration 1 is inside its inner loop and iteration 0 has not started.
C9_Witness ==
  /\ par # <<>>
  /\ Len(par.X) = 3
  /\ par.ipc = <<"L38", "L41", "end">>
  /\ par.ij[2] = 1
  /\ par.uhat[3] = <<1, 2>>
  /\ par.uhat[2] # F(0)

====
